---- MODULE Spec2Model ----
(***************************************************************************)
(* Model of the clippy lint pass DisallowedMethods                         *)
(* (clippy_lints/src/disallowed_methods.rs): the denylist index built by   *)
(* check_crate and the call-site matcher check_expr.                       *)
(*                                                                         *)
(* Strings are sequences of one-character strings, so that split("::")    *)
(* and format!() are computed rather than assumed.  Option<T> is a         *)
(* sequence of length 0 (None) or 1 (Some).  Rule positions are 0-based as *)
(* produced by enumerate(); TLA+ sequences are 1-based, so the element at  *)
(* position index is conf_disallowed[index + 1].                           *)
(***************************************************************************)
EXTENDS Integers, Sequences, FiniteSets, TLC

\* ---------------------------------------------------------------- bounds
MaxRules == 2       \* length of the configured rule list
NumDefIds == 2      \* number of definitions in the analysed crate
MaxVisits == 1      \* number of check_expr invocations in a run
MaxCrateRuns == 2   \* number of check_crate invocations in a run

\* --------------------------------------------------------- configuration
\* "a::f"
PathAF == <<"a", ":", ":", "f">>
\* "b::g"
PathBG == <<"b", ":", ":", "g">>
Paths == {PathAF, PathBG}

\* "no" stands for a reason text such as "no leaking memory"
ReasonText == <<"n", "o">>
Reasons == {<<>>, <<ReasonText>>}

\* clippy_config::types::DisallowedPath as used by this pass: the entries a
\* configuration is drawn from are a bare path, and a path with and
\* without a reason
DisallowedPath ==
    {r \in [path : Paths, reason : Reasons] :
        r.reason # <<>> => r.path = PathAF}

path(conf) == conf.path
reason(conf) == conf.reason

RECURSIVE SeqsUpTo(_, _)
SeqsUpTo(S, n) ==
    IF n = 0 THEN {<<>>}
    ELSE LET shorter == SeqsUpTo(S, n - 1)
         IN  shorter \cup {Append(s, x) : s \in shorter, x \in S}

Configs == SeqsUpTo(DisallowedPath, MaxRules)

\* ------------------------------------------------------ str::split("::")
RECURSIVE SplitFrom(_, _, _)
SplitFrom(s, i, cur) ==
    IF i > Len(s) THEN <<cur>>
    ELSE IF i + 1 <= Len(s) /\ s[i] = ":" /\ s[i + 1] = ":"
         THEN <<cur>> \o SplitFrom(s, i + 2, <<>>)
         ELSE SplitFrom(s, i + 1, Append(cur, s[i]))

split(s) == SplitFrom(s, 1, <<>>)

\* ------------------------------------------------------------ the program
DefIds == 1..NumDefIds

\* The symbol tree of the analysed crate: what each segment list denotes,
\* in the resolver's enumeration order.
IdLists == {<<>>} \cup {<<d>> : d \in DefIds}
               \cup {<<d, e>> : d \in {1}, e \in DefIds \ {1}}
SegLists == {split(p) : p \in Paths}
\* "b::g", where the crate has it, re-exports the first definition
SymbolTrees ==
    {t \in [SegLists -> IdLists] : t[split(PathBG)] \in {<<>>, <<1>>}}

\* Definition kinds that qpath_res can report for a path expression
CallableKinds == {"Fn", "CtorFn", "AssocFn"}
\* a unit/const-style constructor stands for the kinds the match leaves out
OtherKinds == {"CtorConst"}
DefKinds == CallableKinds \cup OtherKinds

NoRes == [tag |-> "Err", kind |-> "", id |-> 0]
ResDef(k, d) == [tag |-> "Def", kind |-> k, id |-> d]
ResLocal == [tag |-> "Local", kind |-> "", id |-> 0]

NoSpan == <<0, 0>>
\* span of a whole expression about definition d, and of the method-name
\* identifier inside a method call
ExprSpan(d) == <<10 * d, 10 * d + 8>>
NameSpan(d) == <<10 * d + 2, 10 * d + 5>>

\* rustc_hir::Expr, reduced to what check_expr reads
PathExprs ==
    {[kind |-> "Path", res |-> ResDef(k, d), tdd |-> <<>>,
      span |-> ExprSpan(d), name_span |-> NoSpan] : k \in DefKinds, d \in DefIds}
    \cup {[kind |-> "Path", res |-> ResLocal, tdd |-> <<>>,
           span |-> ExprSpan(0), name_span |-> NoSpan]}
MethodCallExprs ==
    {[kind |-> "MethodCall", res |-> NoRes, tdd |-> t,
      span |-> ExprSpan(IF t = <<>> THEN 0 ELSE t[1]),
      name_span |-> NameSpan(IF t = <<>> THEN 0 ELSE t[1])]
        : t \in {<<>>} \cup {<<d>> : d \in DefIds}}
\* f(...): the callee is a separate Path sub-expression with its own visit
CallExprs ==
    {[kind |-> "Call", res |-> NoRes, tdd |-> <<>>,
      span |-> <<10, 19>>, name_span |-> NoSpan]}
Exprs == PathExprs \cup MethodCallExprs \cup CallExprs

\* ------------------------------------------------------------------ state
VARIABLES
    conf_disallowed,   \* Vec<DisallowedPath>, fixed at construction
    disallowed,        \* DefIdMap<usize>: a function on a subset of DefIds
    symbols,           \* the crate's symbol tree (LateContext)
    visited,           \* the check_expr invocations so far, in order: the
                       \* expression and the number of check_crate runs
                       \* completed before the invocation
    diags,             \* diagnostics handed to span_lint_and_then, in order
    crateRuns          \* number of completed check_crate invocations

vars == <<conf_disallowed, disallowed, symbols, visited, diags, crateRuns>>

EmptyMap == [d \in {} |-> 0]

\* DisallowedMethods::new
new(conf) == [conf_disallowed |-> conf, disallowed |-> EmptyMap]

Init ==
    /\ \E conf \in Configs :
          /\ conf_disallowed = new(conf).conf_disallowed
          /\ disallowed = new(conf).disallowed
    /\ symbols \in SymbolTrees
    /\ visited = <<>>
    /\ diags = <<>>
    /\ crateRuns = 0

\* clippy_utils::def_path_def_ids
def_path_def_ids(cx, segs) ==
    IF segs \in DOMAIN cx THEN cx[segs] ELSE <<>>

\* insert as entry(id).or_insert(index): an existing entry is kept
insert_keep_first(map, id, index) ==
    [d \in DOMAIN map \cup {id} |-> IF d \in DOMAIN map THEN map[d] ELSE index]

\* insert storing a 1-based position
insert_one_based(map, id, index) ==
    [d \in DOMAIN map \cup {id} |-> IF d = id THEN index + 1 ELSE map[d]]

\* insert evicting an entry that is already there instead of replacing it
insert_evict(map, id, index) ==
    IF id \in DOMAIN map
    THEN [d \in DOMAIN map \ {id} |-> map[d]]
    ELSE [d \in DOMAIN map \cup {id} |-> IF d = id THEN index ELSE map[d]]

\* HashMap::insert
insert(map, id, index) ==
    [d \in DOMAIN map \cup {id} |-> IF d = id THEN index ELSE map[d]]

\* the inner loop of check_crate: every id of one rule
RECURSIVE InsertIds(_, _, _, _)
InsertIds(map, ids, k, index) ==
    IF k > Len(ids) THEN map
    ELSE InsertIds(insert(map, ids[k], index), ids, k + 1, index)

\* the outer loop leaving at the first rule whose path resolves to nothing
RECURSIVE IndexRulesStop(_, _, _, _)
IndexRulesStop(map, conf, cx, index) ==
    IF index >= Len(conf) THEN map
    ELSE LET ids == def_path_def_ids(cx, split(path(conf[index + 1])))
         IN  IF ids = <<>> THEN map
             ELSE IndexRulesStop(InsertIds(map, ids, 1, index),
                                 conf, cx, index + 1)

\* the outer loop of check_crate: rules at positions index, index+1, ...
RECURSIVE IndexRules(_, _, _, _)
IndexRules(map, conf, cx, index) ==
    IF index >= Len(conf) THEN map
    ELSE LET segs == split(path(conf[index + 1]))
         IN  IndexRules(InsertIds(map, def_path_def_ids(cx, segs), 1, index),
                        conf, cx, index + 1)

check_crate ==
    /\ crateRuns < MaxCrateRuns
    /\ disallowed' = IndexRules(disallowed, conf_disallowed, symbols, 0)
    /\ crateRuns' = crateRuns + 1
    /\ UNCHANGED <<conf_disallowed, symbols, visited, diags>>

qpath_res(expr) == expr.res
type_dependent_def_id(expr) == expr.tdd

\* the match without the guard on the definition kind
ClassifyAnyKind(expr) ==
    IF expr.kind = "Path" /\ qpath_res(expr).tag = "Def"
    THEN <<[id |-> qpath_res(expr).id, span |-> expr.span]>>
    ELSE IF expr.kind = "MethodCall" /\ type_dependent_def_id(expr) # <<>>
    THEN <<[id |-> type_dependent_def_id(expr)[1], span |-> expr.name_span]>>
    ELSE <<>>

\* the match taking the span of the whole method call
ClassifyCallSpan(expr) ==
    IF /\ expr.kind = "Path"
       /\ qpath_res(expr).tag = "Def"
       /\ qpath_res(expr).kind \in {"Fn", "CtorFn", "AssocFn"}
    THEN <<[id |-> qpath_res(expr).id, span |-> expr.span]>>
    ELSE IF expr.kind = "MethodCall" /\ type_dependent_def_id(expr) # <<>>
    THEN <<[id |-> type_dependent_def_id(expr)[1], span |-> expr.span]>>
    ELSE <<>>

\* the match falling back to the first definition for an unresolved method
ClassifyFallback(expr) ==
    IF /\ expr.kind = "Path"
       /\ qpath_res(expr).tag = "Def"
       /\ qpath_res(expr).kind \in {"Fn", "CtorFn", "AssocFn"}
    THEN <<[id |-> qpath_res(expr).id, span |-> expr.span]>>
    ELSE IF expr.kind = "MethodCall"
    THEN <<[id |-> IF type_dependent_def_id(expr) # <<>>
                   THEN type_dependent_def_id(expr)[1] ELSE 1,
            span |-> expr.name_span]>>
    ELSE <<>>

\* the match at the head of check_expr: Some(<<id, span>>) or None
Classify(expr) ==
    IF /\ expr.kind = "Path"
       /\ qpath_res(expr).tag = "Def"
       /\ qpath_res(expr).kind \in {"Fn", "CtorFn", "AssocFn"}
    THEN <<[id |-> qpath_res(expr).id, span |-> expr.span]>>
    ELSE IF expr.kind = "MethodCall" /\ type_dependent_def_id(expr) # <<>>
    THEN <<[id |-> type_dependent_def_id(expr)[1], span |-> expr.name_span]>>
    ELSE <<>>

\* the backtick character, which a TLA+ string cannot hold
Backtick == "bt"
MsgPrefix == <<"u", "s", "e", " ", "o", "f", " ", "a", " ",
               "d", "i", "s", "a", "l", "l", "o", "w", "e", "d", " ",
               "m", "e", "t", "h", "o", "d", " ", Backtick>>
\* format!("use of a disallowed method {}", p), the argument in backticks
FormatMsg(p) == MsgPrefix \o p \o <<Backtick>>

\* the closure attaching a note whether or not the rule has a reason
NotesAlways(conf) ==
    IF reason(conf) # <<>> THEN <<reason(conf)[1]>> ELSE <<<<>>>>

\* the closure passed to span_lint_and_then
Notes(conf) ==
    IF reason(conf) # <<>> THEN <<reason(conf)[1]>> ELSE <<>>

\* reporting without consulting the index: the first rule is blamed
ReportUnchecked(map, conf, expr, at) ==
    LET c == Classify(expr) IN
    IF c = <<>> \/ conf = <<>> THEN <<>>
    ELSE LET rule == conf[IF c[1].id \in DOMAIN map THEN map[c[1].id] + 1 ELSE 1]
         IN  <<[at |-> at, span |-> c[1].span, msg |-> FormatMsg(path(rule)),
                notes |-> Notes(rule)]>>

\* the diagnostics one check_expr invocation reports; at is the visit number
Report(map, conf, expr, at) ==
    LET c == Classify(expr) IN
    IF c = <<>> THEN <<>>
    ELSE IF c[1].id \in DOMAIN map
    THEN LET index == map[c[1].id]
             rule == conf[index + 1]
         IN  <<[at |-> at, span |-> c[1].span, msg |-> FormatMsg(path(rule)),
                notes |-> Notes(rule)]>>
    ELSE <<>>

check_expr(expr) ==
    /\ Len(visited) < MaxVisits
    /\ visited' = Append(visited, [expr |-> expr, after |-> crateRuns])
    /\ diags' = diags \o Report(disallowed, conf_disallowed, expr, Len(visited) + 1)
    /\ UNCHANGED <<conf_disallowed, disallowed, symbols, crateRuns>>

Next ==
    \/ check_crate
    \/ \E expr \in Exprs : check_expr(expr)

Spec == Init /\ [][Next]_vars

TypeOK ==
    /\ conf_disallowed \in Configs
    /\ symbols \in SymbolTrees
    /\ DOMAIN disallowed \subseteq DefIds
    /\ crateRuns \in 0..MaxCrateRuns
    /\ Len(visited) <= MaxVisits
    /\ \A i \in 1..Len(visited) :
          visited[i] \in [expr : Exprs, after : 0..MaxCrateRuns]
    /\ \A j \in 1..Len(diags) : diags[j].at \in 1..Len(visited)

\* ------------------------------------------------------------ vocabulary
Positions == 0..(Len(conf_disallowed) - 1)
Range(seq) == {seq[k] : k \in 1..Len(seq)}

\* the identities the resolver returns for the rule at position i
Resolved(i) == Range(def_path_def_ids(symbols, split(path(conf_disallowed[i + 1]))))
\* the positions of the rules whose path resolves to d
RulesOf(d) == {i \in Positions : d \in Resolved(i)}
Greatest(S) == CHOOSE m \in S : \A x \in S : x <= m

Visits == 1..Len(visited)
DiagsAt(k) == {j \in 1..Len(diags) : diags[j].at = k}

\* a visited call site in the sense of the specification: a path expression
\* naming a function, function-style constructor or associated function, or
\* a method call whose callee type inference resolved
IsDirect(e) ==
    e.kind = "Path" /\ e.res.tag = "Def" /\ e.res.kind \in CallableKinds
IsDispatch(e) == e.kind = "MethodCall" /\ e.tdd # <<>>
IsCallSite(e) == IsDirect(e) \/ IsDispatch(e)
Callee(e) == IF IsDirect(e) THEN e.res.id ELSE e.tdd[1]

Collision == \E d \in DefIds : Cardinality(RulesOf(d)) >= 2

\* ------------------------------------------------------------------ C1
\* C1 as stated: after check_crate, every visited call site whose callee is
\* one of the identities a rule resolves to produces exactly one diagnostic,
\* whose message carries that rule's path; for every such rule, also one
\* whose identity a later rule resolves to as well.
C1_AsStated ==
    \A k \in Visits : \A i \in Positions :
        LET e == visited[k].expr IN
        (visited[k].after >= 1 /\ IsCallSite(e) /\ Callee(e) \in Resolved(i))
            => /\ Cardinality(DiagsAt(k)) = 1
               /\ \A j \in DiagsAt(k) :
                     diags[j].msg = FormatMsg(path(conf_disallowed[i + 1]))

\* C1 amended: after check_crate, every visited call site whose callee is
\* one of the identities some rule resolves to produces exactly one
\* diagnostic, and its message carries the path of the last rule in the
\* list that resolves to that identity.
C1_Completeness ==
    \A k \in Visits :
        LET e == visited[k].expr IN
        (visited[k].after >= 1 /\ IsCallSite(e) /\ RulesOf(Callee(e)) # {})
            => /\ Cardinality(DiagsAt(k)) = 1
               /\ \A j \in DiagsAt(k) :
                     diags[j].msg =
                        FormatMsg(path(conf_disallowed[Greatest(RulesOf(Callee(e))) + 1]))

\* a call site whose callee two rules with different paths resolve to was
\* visited after the build and reported once
C1_Witness ==
    \E k \in Visits :
        LET e == visited[k].expr IN
        /\ visited[k].after >= 1
        /\ IsCallSite(e)
        /\ \E i, j \in RulesOf(Callee(e)) :
              i < j /\ path(conf_disallowed[i + 1]) # path(conf_disallowed[j + 1])
        /\ Cardinality(DiagsAt(k)) = 1

\* ------------------------------------------------------------------ C2
\* C2: a check_expr invocation on an expression that derives no callee
\* identity, or whose callee identity is not a key of the index at that
\* moment (in particular while the index is still empty), reports nothing.
C2_NoFalsePositives ==
    [][\A k \in Visits' :
          (k > Len(visited) /\
             (~IsCallSite(visited'[k].expr)
                \/ Callee(visited'[k].expr) \notin DOMAIN disallowed))
          => diags' = diags]_vars

\* a call site was visited after a build that left its callee out of a
\* non-empty index
C2_Witness ==
    \E k \in Visits :
        /\ visited[k].after >= 1
        /\ IsCallSite(visited[k].expr)
        /\ Callee(visited[k].expr) \notin DOMAIN disallowed
        /\ disallowed # EmptyMap
        /\ DiagsAt(k) = {}

\* ------------------------------------------------------------------ C3
\* C3: after check_crate, an identity that several rules resolve to is
\* mapped to the greatest of their positions.
C3_LastWriteWins ==
    crateRuns >= 1 =>
        \A d \in DefIds :
            RulesOf(d) # {} =>
                d \in DOMAIN disallowed /\ disallowed[d] = Greatest(RulesOf(d))

C3_Witness ==
    /\ crateRuns >= 1
    /\ \E d \in DOMAIN disallowed : \E i \in RulesOf(d) : i < disallowed[d]

\* ------------------------------------------------------------------ C4
\* C4: in every reachable state every key of the index is an identity the
\* resolver returns for the path of some configured rule, and every value
\* is a position below the length of the rule list.
C4_IndexInvariant ==
    \A d \in DOMAIN disallowed :
        /\ RulesOf(d) # {}
        /\ disallowed[d] \in Nat
        /\ disallowed[d] < Len(conf_disallowed)

\* a built, non-empty index that check_expr has looked a rule up in
C4_Witness ==
    /\ crateRuns >= 1
    /\ \E d \in DOMAIN disallowed : disallowed[d] = Len(conf_disallowed) - 1
    /\ diags # <<>>

\* ------------------------------------------------------------------ C5
\* C5: a diagnostic reported for a call matched to rule k has rule k's
\* reason as its only note if the rule has a reason, and no note otherwise.
C5_ReasonPropagation ==
    \A j \in 1..Len(diags) :
        LET e == visited[diags[j].at].expr
            k == disallowed[Callee(e)]
            rule == conf_disallowed[k + 1]
        IN  /\ rule.reason = <<>> => diags[j].notes = <<>>
            /\ rule.reason # <<>> => diags[j].notes = <<rule.reason[1]>>

\* a diagnostic with a note, from a list that also has a rule without a
\* reason
C5_Witness ==
    /\ \E j \in 1..Len(diags) : diags[j].notes = <<ReasonText>>
    /\ \E i \in Positions : conf_disallowed[i + 1].reason = <<>>

\* ------------------------------------------------------------------ C6
\* C6: a check_crate run that follows an earlier one leaves the index with
\* exactly the pairs it had.
C6_Idempotence ==
    [][(crateRuns >= 1 /\ crateRuns' = crateRuns + 1)
          => disallowed' = disallowed]_vars

\* the build ran twice over a configuration with a collision
C6_Witness ==
    /\ crateRuns >= 2
    /\ Collision
    /\ Cardinality(DOMAIN disallowed) >= 2

\* ------------------------------------------------------------------ C7
\* C7: a diagnostic for a direct-reference match carries the span of the
\* whole path expression; a diagnostic for a receiver-dispatch match carries
\* the span of the method-name identifier, which is not the span of the
\* whole call.
C7_Spans ==
    \A j \in 1..Len(diags) :
        LET e == visited[diags[j].at].expr IN
        /\ e.kind = "Path" => diags[j].span = e.span
        /\ e.kind = "MethodCall" =>
              diags[j].span = e.name_span /\ diags[j].span # e.span

\* a method call was reported
C7_Witness ==
    \E j \in 1..Len(diags) : visited[diags[j].at].expr.kind = "MethodCall"

\* ------------------------------------------------------------------ C8
\* C8: a method call for which type inference reports no callee produces
\* no diagnostic, whatever the index holds.
C8_UnresolvedSkipped ==
    \A k \in Visits :
        (visited[k].expr.kind = "MethodCall" /\ visited[k].expr.tdd = <<>>)
            => DiagsAt(k) = {}

\* an unresolved method call visited while every definition is on the list
C8_Witness ==
    \E k \in Visits :
        /\ visited[k].expr.kind = "MethodCall"
        /\ visited[k].expr.tdd = <<>>
        /\ visited[k].after >= 1
        /\ DOMAIN disallowed = DefIds

\* ------------------------------------------------------------------ C9
\* C9: after check_crate, a rule whose path resolves to nothing is the value
\* of no index entry, every identity the other rules resolve to is indexed
\* at the position of a rule that resolves to it, and no diagnostic carries
\* the path of the unresolved rule.
C9_UnresolvedRuleInert ==
    \A i \in Positions :
        (crateRuns >= 1 /\ Resolved(i) = {}) =>
            /\ \A d \in DOMAIN disallowed : disallowed[d] # i
            /\ \A j \in Positions : \A d \in Resolved(j) :
                  d \in DOMAIN disallowed /\ disallowed[d] \in RulesOf(d)
            /\ \A j \in 1..Len(diags) :
                  diags[j].msg # FormatMsg(path(conf_disallowed[i + 1]))

\* an unresolved rule sits before a resolved one, and a call was reported
C9_Witness ==
    /\ crateRuns >= 1
    /\ \E i, j \in Positions : i < j /\ Resolved(i) = {} /\ Resolved(j) # {}
    /\ diags # <<>>

\* ----------------------------------------------------------------- C10
\* C10: a path expression whose resolution is not a function, a
\* function-style constructor or an associated function produces no
\* diagnostic even when its identity is a key of the index, and neither
\* does a call expression node itself.
C10_KindFilter ==
    \A k \in Visits :
        LET e == visited[k].expr IN
        ((e.kind = "Path" /\ ~IsDirect(e)) \/ e.kind = "Call")
            => DiagsAt(k) = {}

\* a constant-style path naming an indexed identity was visited after the
\* build
C10_Witness ==
    \E k \in Visits :
        /\ visited[k].expr.kind = "Path"
        /\ visited[k].expr.res.tag = "Def"
        /\ visited[k].expr.res.kind \in OtherKinds
        /\ visited[k].after >= 1
        /\ visited[k].expr.res.id \in DOMAIN disallowed
====
